---- MODULE Spec2Model ----
(***************************************************************************)
(* A model of caterpillar.py, the converter of Chrome Apps into            *)
(* progressive web apps: the stages of convert_app over an input and an    *)
(* output file tree, and the functions the stages are made of.             *)
(*                                                                         *)
(* A file tree is a record [dirs, files]: dirs is the set of directory     *)
(* paths and files maps each file path to its content.  A path is the      *)
(* tuple of its components, relative to the root of the tree:              *)
(* <<"caterpillar", "sw_static.js">> is caterpillar/sw_static.js.          *)
(* A text is a sequence of chunks: a chunk is "\n", "\r", or a piece of    *)
(* text without line breaks.                                               *)
(***************************************************************************)
EXTENDS Integers, Sequences, FiniteSets, TLC

VARIABLES
  pc,          \* position of the convert command: the stage that runs next
  inTree,      \* the input directory: a file tree, or NoDir
  outTree,     \* the output directory: a file tree, or NoDir
  config,      \* the conversion configuration dictionary
  force,       \* the --force flag
  nlOnWrite,   \* whether a text-mode write turns "\n" into "\r\n" (os.linesep)
  run,         \* locals of convert_app: apis, successful, manifest, ...
  log,         \* the records logged at INFO level and above
  exitStatus,  \* the exit status of the process, or NoStatus
  hist,        \* history of the run: files scanned, writes after enumeration
  pf,          \* a call of polyfill_apis: arguments and result
  mt,          \* a call of ca_to_pwa_manifest: arguments and result
  inj,         \* a call of inject_tags: arguments and result
  td           \* a call of insert_todos_into_file: the file before and after

vars == <<pc, inTree, outTree, config, force, nlOnWrite, run, log, exitStatus,
          hist, pf, mt, inj, td>>
pipelineVars == <<pc, inTree, outTree, config, force, run, log, exitStatus, hist>>

-----------------------------------------------------------------------------
(* Bounds of the model. *)

\* Number of capabilities without a polyfill an app may use.
NUnknown == 3
\* Number of entries of a legacy manifest's icons mapping.
MaxIcons == 2
\* Number of chunks of a script file.
MaxChunks == 4
\* Number of polyfilled APIs handed to inject_tags.
MaxPolyfills == 2
\* Number of children of the body of an HTML document.
MaxBody == 2

-----------------------------------------------------------------------------
(* Generic helpers. *)

Range(s) == {s[i] : i \in DOMAIN s}

NoDup(s) == \A i, j \in DOMAIN s : i # j => s[i] # s[j]

RECURSIVE SeqsUpTo(_, _)
\* The sequences without repetition over S of length at most n.
SeqsUpTo(S, n) ==
  IF n = 0 THEN {<<>>}
  ELSE LET shorter == SeqsUpTo(S, n - 1)
           longest == {t \in shorter : Len(t) = n - 1}
       IN shorter \cup UNION {{Append(s, x) : x \in S \ Range(s)} : s \in longest}

RECURSIVE AllSeqs(_, _)
\* The sequences over S of length at most n.
AllSeqs(S, n) ==
  IF n = 0 THEN {<<>>}
  ELSE LET shorter == AllSeqs(S, n - 1)
       IN shorter \cup {Append(s, x) : s \in {t \in shorter : Len(t) = n - 1},
                                       x \in S}

RECURSIVE Flatten(_)
Flatten(ss) == IF ss = <<>> THEN <<>> ELSE Head(ss) \o Flatten(Tail(ss))

Count(s, x) == Cardinality({i \in DOMAIN s : s[i] = x})

-----------------------------------------------------------------------------
(* Module constants of caterpillar.py. *)

POLYFILLS == {"tts"}
CA_MANIFEST_FILENAME == "manifest.json"
PWA_MANIFEST_FILENAME == "manifest.webmanifest"
REGISTER_SCRIPT_NAME == "register_sw.js"
SW_SCRIPT_NAME == "sw.js"
SW_STATIC_SCRIPT_NAME == "sw_static.js"
CONVERTER_NAME == "caterpillar"

-----------------------------------------------------------------------------
(* Capability names and their lexicographic order. *)

UnknownPool == <<"alarms", "usb", "runtime", "storage", "wallpaper">>
UnknownApis == {UnknownPool[i] : i \in 1..NUnknown}
Capabilities == POLYFILLS \cup UnknownApis

\* Python's order on these strings (the order list.sort() uses).
LexOrder == <<"alarms", "runtime", "storage", "tts", "usb", "wallpaper">>
LexRank(a) == CHOOSE i \in DOMAIN LexOrder : LexOrder[i] = a
LexLess(a, b) == LexRank(a) < LexRank(b)

RECURSIVE InsertSorted(_, _)
InsertSorted(s, x) ==
  IF s = <<>> THEN <<x>>
  ELSE IF LexLess(x, Head(s)) THEN <<x>> \o s
  ELSE <<Head(s)>> \o InsertSorted(Tail(s), x)

RECURSIVE Sort(_)
\* list.sort() on a list of capability names.
Sort(s) == IF s = <<>> THEN <<>> ELSE InsertSorted(Sort(Tail(s)), Head(s))

IsSorted(s) == \A i, j \in DOMAIN s : i < j => ~LexLess(s[j], s[i])

-----------------------------------------------------------------------------
(* File trees. *)

NoDir == [absent |-> TRUE]
EmptyTree == [dirs |-> {}, files |-> <<>>]

Paths(tree) == DOMAIN tree.files
Parent(p) == SubSeq(p, 1, Len(p) - 1)
IsDir(tree, d) == d = <<>> \/ d \in tree.dirs
PathExists(tree, p) == p \in Paths(tree) \/ IsDir(tree, p)

\* open(path, 'w').write(content), shutil.copyfile(src, path): the file is
\* created or replaced.
WriteFile(tree, p, content) ==
  [tree EXCEPT !.files = [q \in Paths(tree) \cup {p} |->
                            IF q = p THEN content ELSE tree.files[q]]]
RemoveFile(tree, p) ==
  [tree EXCEPT !.files = [q \in Paths(tree) \ {p} |-> tree.files[q]]]
MakeDir(tree, d) == [tree EXCEPT !.dirs = @ \cup {d}]

\* Contents of the resources shipped beside caterpillar.py, in js/.
PolyfillSource(api) == [js |-> <<"chrome.tts.speak(", "\n">>, polyfill |-> api]
ScriptSource(script) == [js |-> <<"x = 1;", "\n">>, script |-> script]

-----------------------------------------------------------------------------
(* boilerplate_dir, relative_boilerplate_file_path, polyfill_filename. *)

boilerplate_dir(directory) == Append(directory, CONVERTER_NAME)
relative_boilerplate_file_path(filename) == <<CONVERTER_NAME, filename>>
\* '{}.polyfill.js'.format(api), for each capability name of the model.
PolyfillFilenames ==
  [tts |-> "tts.polyfill.js", alarms |-> "alarms.polyfill.js",
   usb |-> "usb.polyfill.js", runtime |-> "runtime.polyfill.js",
   storage |-> "storage.polyfill.js", wallpaper |-> "wallpaper.polyfill.js"]
polyfill_filename(api) == PolyfillFilenames[api]

-----------------------------------------------------------------------------
(* polyfill_apis *)

RECURSIVE PolyfillLoop(_, _, _)
\* The for loop of polyfill_apis over the remaining apis; acc is the record
\* of successful, unsuccessful, the tree and the copies made so far.
PolyfillLoop(apis, directory, acc) ==
  IF apis = <<>> THEN acc
  ELSE LET api == Head(apis) IN
    IF api \notin POLYFILLS
    THEN PolyfillLoop(Tail(apis), directory,
                      [acc EXCEPT !.unsuccessful = Append(@, api)])
    ELSE LET destination_path == Append(directory, polyfill_filename(api))
         IN PolyfillLoop(Tail(apis), directory,
              [acc EXCEPT
                 !.tree = WriteFile(@, destination_path, PolyfillSource(api)),
                 !.copies = Append(@, destination_path),
                 !.successful = Append(@, api)])

polyfill_apis_unsorted(apis, directory, tree) ==
  PolyfillLoop(apis, directory,
               [successful |-> <<>>, unsuccessful |-> <<>>,
                tree |-> tree, copies |-> <<>>])

polyfill_apis(apis, directory, tree) ==
  LET r == PolyfillLoop(apis, directory,
                        [successful |-> <<>>, unsuccessful |-> <<>>,
                         tree |-> tree, copies |-> <<>>])
  IN [r EXCEPT !.successful = Sort(@), !.unsuccessful = Sort(@)]

-----------------------------------------------------------------------------
(* ca_to_pwa_manifest *)

Has(d, key) == key \in DOMAIN d
Get(d, key, default) == IF Has(d, key) THEN d[key] ELSE default

\* '{0}x{0}'.format(icon_size): kept as the parts of the string.
IconSizes(icon_size) == <<icon_size, "x", icon_size>>

PwaIcons(manifest) ==
  IF Has(manifest, "icons")
  THEN [i \in DOMAIN manifest["icons"] |->
          [src |-> manifest["icons"][i].path,
           sizes |-> IconSizes(manifest["icons"][i].size)]]
  ELSE <<>>

ca_to_pwa_manifest_name_only(manifest, config_) ==
  [name |-> manifest["name"],
   short_name |-> manifest["name"],
   lang |-> Get(manifest, "default_locale", "en"),
   splash_screens |-> <<>>,
   display |-> "minimal-ui",
   orientation |-> "any",
   start_url |-> config_["start_url"],
   theme_color |-> "white",
   background_color |-> "white",
   related_applications |-> <<>>,
   prefer_related_applications |-> FALSE,
   icons |-> PwaIcons(manifest)]

ca_to_pwa_manifest(manifest, config_) ==
  [name |-> manifest["name"],
   short_name |-> Get(manifest, "short_name", manifest["name"]),
   lang |-> Get(manifest, "default_locale", "en"),
   splash_screens |-> <<>>,
   display |-> "minimal-ui",
   orientation |-> "any",
   start_url |-> config_["start_url"],
   theme_color |-> "white",
   background_color |-> "white",
   related_applications |-> <<>>,
   prefer_related_applications |-> FALSE,
   icons |-> PwaIcons(manifest)]

-----------------------------------------------------------------------------
(* chrome_app.apis: the scanner of script text. *)

\* The chunks the scanner takes for a call of a Chrome Apps API function,
\* with the name of the call and the API it belongs to.
ApiCalls ==
  [c \in {"chrome.tts.speak(", "chrome.alarms.create(",
          "chrome.usb.getDevices(", "chrome.runtime.reload(",
          "chrome.storage.clear(", "chrome.wallpaper.set("} |->
     CASE c = "chrome.tts.speak(" -> [call |-> "chrome.tts.speak", api |-> "tts"]
       [] c = "chrome.alarms.create(" ->
            [call |-> "chrome.alarms.create", api |-> "alarms"]
       [] c = "chrome.usb.getDevices(" ->
            [call |-> "chrome.usb.getDevices", api |-> "usb"]
       [] c = "chrome.runtime.reload(" ->
            [call |-> "chrome.runtime.reload", api |-> "runtime"]
       [] c = "chrome.storage.clear(" ->
            [call |-> "chrome.storage.clear", api |-> "storage"]
       [] c = "chrome.wallpaper.set(" ->
            [call |-> "chrome.wallpaper.set", api |-> "wallpaper"]]

None == "None"

\* chrome_app.apis.api_function_called(line): the first call on the line.
api_function_called(line) ==
  LET hits == {i \in DOMAIN line : line[i] \in DOMAIN ApiCalls}
  IN IF hits = {} THEN None
     ELSE ApiCalls[line[CHOOSE i \in hits : \A j \in hits : i <= j]].call

-----------------------------------------------------------------------------
(* Reading and writing text files. *)

RECURSIVE SplitLines(_, _, _)
\* The lines of a text: each ends with its terminator, but for a last line
\* without one.  With universal newlines ('rU') the terminators "\r\n" and
\* "\r" are read as "\n"; without, each terminator is kept as it is.
SplitLines(text, cur, universal) ==
  IF text = <<>> THEN (IF cur = <<>> THEN <<>> ELSE <<cur>>)
  ELSE IF Head(text) = "\n"
    THEN <<Append(cur, "\n")>> \o SplitLines(Tail(text), <<>>, universal)
  ELSE IF Head(text) = "\r"
    THEN LET crlf == Len(text) >= 2 /\ text[2] = "\n"
             rest == IF crlf THEN Tail(Tail(text)) ELSE Tail(text)
             term == IF universal THEN <<"\n">>
                     ELSE IF crlf THEN <<"\r", "\n">> ELSE <<"\r">>
         IN <<cur \o term>> \o SplitLines(rest, <<>>, universal)
  ELSE SplitLines(Tail(text), Append(cur, Head(text)), universal)

\* for line in open(path, 'rU')
ReadLinesU(text) == SplitLines(text, <<>>, TRUE)
\* The lines as they are in the file.
RawLines(text) == SplitLines(text, <<>>, FALSE)

RECURSIVE WriteText(_, _)
\* open(path, 'w').write(text): a text-mode write, which turns each "\n"
\* into os.linesep where that is "\r\n".
WriteText(text, translate) ==
  IF text = <<>> THEN <<>>
  ELSE (IF Head(text) = "\n" /\ translate THEN <<"\r", "\n">> ELSE <<Head(text)>>)
       \o WriteText(Tail(text), translate)

-----------------------------------------------------------------------------
(* insert_todos_into_file *)

\* '// TODO: (Caterpillar) Remove {} call.\n'.format(api_call)
Todo(api_call) == <<"// TODO: (Caterpillar) Remove ", api_call, " call.", "\n">>

RECURSIVE TodoLoopAfter(_)
TodoLoopAfter(lines) ==
  IF lines = <<>> THEN <<>>
  ELSE LET line == Head(lines)
           api_call == api_function_called(line)
       IN (IF api_call # None THEN <<line, Todo(api_call)>> ELSE <<line>>)
          \o TodoLoopAfter(Tail(lines))

RECURSIVE TodoLoop(_)
\* The loop over the lines of the file: the list out_js.
TodoLoop(lines) ==
  IF lines = <<>> THEN <<>>
  ELSE LET line == Head(lines)
           api_call == api_function_called(line)
       IN (IF api_call # None THEN <<Todo(api_call), line>> ELSE <<line>>)
          \o TodoLoop(Tail(lines))

\* The text of the file after insert_todos_into_file.
insert_todos_into_file(text, translate) ==
  WriteText(Flatten(TodoLoop(ReadLinesU(text))), translate)

-----------------------------------------------------------------------------
(* HTML documents.  A document is a record [head, body] of the children of *)
(* its head and its body; a tag is a record [tag, attrs, kids].            *)

Tag(name, attrs) == [tag |-> name, attrs |-> attrs, kids |-> <<>>]
ScriptTag(src) == Tag("script", [src |-> src])
Div(kids) == [tag |-> "div", attrs |-> [class |-> "box"], kids |-> kids]

RECURSIVE HasScript(_)
\* Whether soup.body.script finds a tag: a script tag among the descendants.
HasScript(nodes) ==
  \E i \in DOMAIN nodes : nodes[i].tag = "script" \/ HasScript(nodes[i].kids)

RECURSIVE InsertBeforeFirstScript(_, _)
\* soup.body.script.insert_before(new): new becomes the previous sibling of
\* the first script tag of the body, in document order.
InsertBeforeFirstScript(nodes, new) ==
  IF nodes = <<>> THEN <<>>
  ELSE LET n == Head(nodes) IN
    IF n.tag = "script" THEN <<new>> \o nodes
    ELSE IF HasScript(n.kids)
      THEN <<[n EXCEPT !.kids = InsertBeforeFirstScript(@, new)]>> \o Tail(nodes)
    ELSE <<n>> \o InsertBeforeFirstScript(Tail(nodes), new)

RECURSIVE Preorder(_)
\* The tags of a list of nodes in document order.
Preorder(nodes) ==
  IF nodes = <<>> THEN <<>>
  ELSE <<[Head(nodes) EXCEPT !.kids = <<>>]>> \o Preorder(Head(nodes).kids)
       \o Preorder(Tail(nodes))

-----------------------------------------------------------------------------
(* inject_script_tag, inject_tags *)

inject_script_tag(soup, script_filename) ==
  [soup EXCEPT !.body =
     Append(@, ScriptTag(relative_boilerplate_file_path(script_filename)))]

PolyfillTag(api) ==
  ScriptTag(relative_boilerplate_file_path(polyfill_filename(api)))

AddPolyfillAppending(soup, api) ==
  [soup EXCEPT !.body = Append(@, PolyfillTag(api))]

\* One iteration of the loop over polyfills.
AddPolyfill(soup, api) ==
  IF HasScript(soup.body)
  THEN [soup EXCEPT !.body = InsertBeforeFirstScript(@, PolyfillTag(api))]
  ELSE [soup EXCEPT !.body = Append(@, PolyfillTag(api))]

RECURSIVE AddPolyfills(_, _)
AddPolyfills(soup, polyfills) ==
  IF polyfills = <<>> THEN soup
  ELSE AddPolyfills(AddPolyfill(soup, Head(polyfills)), Tail(polyfills))

RECURSIVE AddMetaTags(_, _, _)
\* The loop over ('description', 'author', 'name').
AddMetaTags(soup, manifest, tags) ==
  IF tags = <<>> THEN soup
  ELSE LET tag == Head(tags)
           next == IF tag \in DOMAIN manifest
                   THEN [soup EXCEPT !.head =
                           Append(@, Tag("meta", [content |-> manifest[tag],
                                                  name |-> tag]))]
                   ELSE soup
       IN AddMetaTags(next, manifest, Tail(tags))

ManifestLink == Tag("link", [rel |-> "manifest", href |-> PWA_MANIFEST_FILENAME])
MetaCharset == Tag("meta", [charset |-> "utf-8"])

\* The document inject_tags returns (before soup.prettify serialises it).
inject_tags(html, manifest, polyfills) ==
  LET linked == [html EXCEPT !.head = Append(@, ManifestLink)]
      filled == AddPolyfills(linked, polyfills)
      registered == inject_script_tag(filled, REGISTER_SCRIPT_NAME)
      described == AddMetaTags(registered, manifest,
                               <<"description", "author", "name">>)
  IN [described EXCEPT !.head = <<MetaCharset>> \o @]

-----------------------------------------------------------------------------
(* insert_todos_into_directory, generate_service_worker, copy_script *)

\* The file names of the model for which filename.endswith('.js') holds.
JsFilenames ==
  {"main.js", "util.js", SW_SCRIPT_NAME, REGISTER_SCRIPT_NAME,
   SW_STATIC_SCRIPT_NAME} \cup {PolyfillFilenames[a] : a \in DOMAIN PolyfillFilenames}
EndsWithJs(filename) == filename \in JsFilenames

\* The files os.walk(directory) reaches whose name ends with '.js'.
ScriptPaths(tree) == {p \in Paths(tree) : EndsWithJs(p[Len(p)])}

insert_todos_into_directory(tree, translate) ==
  [tree EXCEPT !.files =
     [p \in Paths(tree) |->
        IF p \in ScriptPaths(tree)
        THEN [tree.files[p] EXCEPT !.js = insert_todos_into_file(@, translate)]
        ELSE tree.files[p]]]

RECURSIVE SetToSeq(_)
\* The elements of a set in some order (os.walk promises none).
SetToSeq(S) ==
  IF S = {} THEN <<>>
  ELSE LET x == CHOOSE y \in S : TRUE IN <<x>> \o SetToSeq(S \ {x})

\* A walk that does not descend into the subdirectories.
all_filepaths_top(tree) == SetToSeq({p \in Paths(tree) : Len(p) = 1})

\* The list all_filepaths of generate_service_worker: the path of every
\* file of the tree, relative to its root.
all_filepaths(tree) == SetToSeq(Paths(tree))

MAX_CACHE_VERSION == 1000000
\* The values of random.randrange(MAX_CACHE_VERSION) the model draws.
CacheVersions == {0, MAX_CACHE_VERSION - 1}

\* The script SW_FORMAT_STRING renders.
generate_service_worker(tree, version) ==
  [sw |-> [CACHE_VERSION |-> version, CACHED_FILES |-> all_filepaths(tree)]]

copy_script(script, tree) ==
  WriteFile(tree, Append(boilerplate_dir(<<>>), script), ScriptSource(script))

sw_path_in_boilerplate_dir == Append(boilerplate_dir(<<>>), SW_SCRIPT_NAME)
\* sw_path of add_service_worker: the service worker is in the root.
sw_path == <<SW_SCRIPT_NAME>>

-----------------------------------------------------------------------------
(* chrome_app.apis.app_apis, chrome_app.manifest *)

\* The APIs called on the lines of a text.
RECURSIVE LineApis(_)
LineApis(lines) ==
  IF lines = <<>> THEN {}
  ELSE {ApiCalls[c].api : c \in Range(Head(lines)) \cap DOMAIN ApiCalls}
       \cup LineApis(Tail(lines))

\* chrome_app.apis.app_apis(directory): the Chrome APIs the scripts of the
\* app use, each once, as a sorted list.
app_apis(tree) ==
  LET used == UNION {LineApis(ReadLinesU(tree.files[p].js)) : p \in ScriptPaths(tree)}
  IN Sort(SetToSeq(used))

\* chrome_app.manifest.get(directory): the manifest dictionary, or the
\* ValueError of a manifest that cannot be loaded.
manifest_get(tree) ==
  IF <<CA_MANIFEST_FILENAME>> \notin Paths(tree) THEN [error |-> "No manifest."]
  ELSE IF "json" \notin DOMAIN tree.files[<<CA_MANIFEST_FILENAME>>]
    THEN [error |-> "Manifest is not valid JSON."]
  ELSE [ok |-> tree.files[<<CA_MANIFEST_FILENAME>>].json]

\* chrome_app.manifest.verify(manifest): the required keys are there.
manifest_verify(manifest) ==
  IF "name" \in DOMAIN manifest THEN [ok |-> TRUE]
  ELSE [error |-> "Manifest is missing name."]

-----------------------------------------------------------------------------
(* setup_output_dir *)

MustRefuseNever(force_, tree) == FALSE

\* The elif of setup_output_dir: the output directory exists and is not to
\* be overwritten.
MustRefuse(force_, tree) == ~force_ /\ tree # NoDir

\* The outcome of setup_output_dir and the output directory it leaves:
\* "ValueError" when it refuses, "OSError" when a file operation fails, and
\* `copied` is the output tree as shutil.copytree made it.
setup_output_dir(input, output, force_) ==
  IF MustRefuse(force_, output)
  THEN [result |-> "ValueError", tree |-> output, copied |-> NoDir]
  ELSE IF input = NoDir
  THEN [result |-> "OSError", tree |-> NoDir, copied |-> NoDir]
  ELSE LET conv_path == boilerplate_dir(<<>>)
           ca_manifest_path == <<CA_MANIFEST_FILENAME>>
       IN IF PathExists(input, conv_path)
          THEN [result |-> "OSError", tree |-> input, copied |-> input]
          ELSE IF ca_manifest_path \notin Paths(input)
          THEN [result |-> "OSError", tree |-> MakeDir(input, conv_path),
                copied |-> input]
          ELSE [result |-> "ok",
                tree |-> RemoveFile(MakeDir(input, conv_path), ca_manifest_path),
                copied |-> input]

-----------------------------------------------------------------------------
(* The convert command: main and the stages of convert_app. *)

Unset == [unset |-> TRUE]
NotExited == <<>>

Logged(level, message) == [level |-> level, message |-> message]

OnValueErrorSilent(log_, message) == log_

\* except ValueError as e: logging.error(e.message)
OnValueError(log_, message) == Append(log_, Logged("ERROR", message))

\* The process ends: sys.exit(main()) with what main returned, or the exit
\* of the interpreter on an exception nobody caught.
exit_status(pc_) == IF pc_ = "raised" THEN <<1>> ELSE <<0>>

Return(outcome) ==
  /\ pc' = "returned"
  /\ run' = [run EXCEPT !.outcome = outcome]

Raise ==
  /\ pc' = "raised"
  /\ run' = [run EXCEPT !.outcome = "raised"]
  /\ log' = log

SetupOutputDir ==
  /\ pc = "setup_output_dir"
  /\ LET r == setup_output_dir(inTree, outTree, force) IN
       /\ outTree' = r.tree
       /\ hist' = [hist EXCEPT !.copied = r.copied]
       /\ CASE r.result = "ok" -> pc' = "polyfill_apis" /\ UNCHANGED <<run, log>>
            [] r.result = "ValueError" ->
                 /\ log' = OnValueError(log, "Output directory already exists.")
                 /\ Return("aborted")
            [] OTHER -> Raise
  /\ UNCHANGED <<inTree, config, force, nlOnWrite, exitStatus, pf, mt, inj, td>>

PolyfillApis ==
  /\ pc = "polyfill_apis"
  /\ LET apis == app_apis(outTree)
         r == polyfill_apis(apis, boilerplate_dir(<<>>), outTree)
         found == IF apis # <<>>
                  THEN <<Logged("INFO", "Found Chrome APIs")>> ELSE <<>>
         done == IF r.successful # <<>>
                 THEN <<Logged("INFO", "Polyfilled Chrome APIs")>> ELSE <<>>
         left == IF r.unsuccessful # <<>>
                 THEN <<Logged("WARNING", "Could not polyfill Chrome APIs")>>
                 ELSE <<>>
     IN /\ outTree' = r.tree
        /\ run' = [run EXCEPT !.apis = apis, !.successful = r.successful,
                              !.unsuccessful = r.unsuccessful]
        /\ log' = log \o found \o done \o left
  /\ pc' = "manifest_get"
  /\ UNCHANGED <<inTree, config, force, nlOnWrite, exitStatus, hist, pf, mt, inj, td>>

GetManifest ==
  /\ pc = "manifest_get"
  /\ LET r == manifest_get(inTree) IN
       IF "error" \in DOMAIN r
       THEN /\ log' = OnValueError(log, r.error)
            /\ Return("aborted")
       ELSE /\ run' = [run EXCEPT !.manifest = r.ok]
            /\ pc' = "manifest_verify"
            /\ log' = log
  /\ UNCHANGED <<inTree, outTree, config, force, nlOnWrite, exitStatus, hist,
                 pf, mt, inj, td>>

VerifyManifest ==
  /\ pc = "manifest_verify"
  /\ LET r == manifest_verify(run.manifest) IN
       IF "error" \in DOMAIN r
       THEN /\ log' = OnValueError(log, r.error)
            /\ Return("aborted")
       ELSE /\ pc' = "write_manifest"
            /\ UNCHANGED <<run, log>>
  /\ UNCHANGED <<inTree, outTree, config, force, nlOnWrite, exitStatus, hist,
                 pf, mt, inj, td>>

WriteManifest ==
  /\ pc = "write_manifest"
  /\ LET pwa_manifest == ca_to_pwa_manifest(run.manifest, config) IN
       /\ run' = [run EXCEPT !.pwa_manifest = pwa_manifest]
       /\ outTree' = WriteFile(outTree, <<PWA_MANIFEST_FILENAME>>,
                               [pwa |-> pwa_manifest])
  /\ pc' = "inject_tags"
  /\ UNCHANGED <<inTree, config, force, nlOnWrite, log, exitStatus, hist,
                 pf, mt, inj, td>>

InjectTags ==
  /\ pc = "inject_tags"
  /\ LET start_path == <<run.pwa_manifest.start_url>> IN
       IF start_path \notin Paths(outTree)
       THEN Raise /\ outTree' = outTree
       ELSE /\ outTree' = WriteFile(outTree, start_path,
                 [html |-> inject_tags(outTree.files[start_path].html,
                                       run.manifest, run.successful),
                  injected |-> TRUE])
            /\ pc' = "insert_todos"
            /\ UNCHANGED <<run, log>>
  /\ UNCHANGED <<inTree, config, force, nlOnWrite, exitStatus, hist, pf, mt, inj, td>>

InsertTodos ==
  /\ pc = "insert_todos"
  /\ outTree' = insert_todos_into_directory(outTree, nlOnWrite)
  /\ hist' = [hist EXCEPT !.scanned = ScriptPaths(outTree)]
  /\ pc' = "copy_scripts"
  /\ UNCHANGED <<inTree, config, force, nlOnWrite, run, log, exitStatus,
                 pf, mt, inj, td>>

\* add_service_worker, first part: the two copy_script calls.
CopyScripts ==
  /\ pc = "copy_scripts"
  /\ outTree' = copy_script(SW_STATIC_SCRIPT_NAME,
                            copy_script(REGISTER_SCRIPT_NAME, outTree))
  /\ pc' = "generate_service_worker"
  /\ UNCHANGED <<inTree, config, force, nlOnWrite, run, log, exitStatus, hist,
                 pf, mt, inj, td>>

\* add_service_worker, second part: generate_service_worker walks the tree.
GenerateServiceWorker ==
  /\ pc = "generate_service_worker"
  /\ \E version \in CacheVersions :
       run' = [run EXCEPT !.sw_js = generate_service_worker(outTree, version)]
  /\ hist' = [hist EXCEPT !.enumerated = outTree]
  /\ pc' = "write_service_worker"
  /\ UNCHANGED <<inTree, outTree, config, force, nlOnWrite, log, exitStatus,
                 pf, mt, inj, td>>

\* add_service_worker, last part, and the end of convert_app.
WriteServiceWorker ==
  /\ pc = "write_service_worker"
  /\ outTree' = WriteFile(outTree, sw_path, run.sw_js)
  /\ log' = Append(log, Logged("INFO", "Conversion complete."))
  /\ Return("complete")
  /\ UNCHANGED <<inTree, config, force, nlOnWrite, exitStatus, hist, pf, mt, inj, td>>

Exit ==
  /\ pc \in {"returned", "raised"}
  /\ exitStatus' = exit_status(pc)
  /\ pc' = "exited"
  /\ UNCHANGED <<inTree, outTree, config, force, nlOnWrite, run, log, hist,
                 pf, mt, inj, td>>

-----------------------------------------------------------------------------
(* The calls of the functions on their own. *)

PolyfillApisCall ==
  /\ pf.pc = "call"
  /\ pf' = [pf EXCEPT !.pc = "return",
                      !.result = polyfill_apis(pf.apis, pf.directory, pf.tree)]
  /\ UNCHANGED <<pipelineVars, nlOnWrite, mt, inj, td>>

CaToPwaManifestCall ==
  /\ mt.pc = "call"
  /\ mt' = [mt EXCEPT !.pc = "return",
                      !.result = ca_to_pwa_manifest(mt.manifest, mt.config)]
  /\ UNCHANGED <<pipelineVars, nlOnWrite, pf, inj, td>>

InjectTagsCall ==
  /\ inj.pc = "call"
  /\ inj' = [inj EXCEPT !.pc = "return",
                        !.result = inject_tags(inj.html, inj.manifest, inj.polyfills)]
  /\ UNCHANGED <<pipelineVars, nlOnWrite, pf, mt, td>>

InsertTodosIntoFileCall ==
  /\ td.pc = "call"
  /\ td' = [td EXCEPT !.pc = "return",
                      !.after = insert_todos_into_file(td.before, nlOnWrite)]
  /\ UNCHANGED <<pipelineVars, nlOnWrite, pf, mt, inj>>

-----------------------------------------------------------------------------
(* The inputs of the model. *)

MkDict(pairs) == [k \in {q[1] : q \in pairs} |-> (CHOOSE q \in pairs : q[1] = k)[2]]
Optional(key, values) == {{}} \cup {{<<key, v>>} : v \in values}

\* Legacy manifests: `name`, and any of the optional keys.
IconPool == <<[size |-> "16", path |-> "icon16.png"],
              [size |-> "48", path |-> "icon48.png"],
              [size |-> "128", path |-> "icon128.png"],
              [size |-> "256", path |-> "icon256.png"]>>
IconMappings == {SubSeq(IconPool, 1, k) : k \in 0..MaxIcons}
LegacyManifests ==
  {MkDict({<<"name", n>>} \cup sn \cup loc \cup ic \cup d \cup a) :
     n \in {"Demo", "App"},
     sn \in Optional("short_name", {"D", "Demo"}),
     loc \in Optional("default_locale", {"fr"}),
     ic \in Optional("icons", IconMappings),
     d \in Optional("description", {"A demo"}),
     a \in Optional("author", {"alger"})}
Configs == {[start_url |-> u] : u \in {"index.html", "app.html"}}

\* HTML documents with a head and a body.
Title == Tag("title", [text |-> "Demo"])
MainScript == ScriptTag(<<"main.js">>)
BodyNodes == {MainScript, Tag("p", [id |-> "intro"]), Div(<<MainScript>>), Div(<<>>)}
Heads == {<<>>, <<Title>>, <<Title, MetaCharset>>}
Documents == {[head |-> h, body |-> b] : h \in Heads, b \in AllSeqs(BodyNodes, MaxBody)}
InjectManifests ==
  {MkDict({<<"name", "Demo">>} \cup d \cup a) :
     d \in Optional("description", {"A demo"}),
     a \in Optional("author", {"alger"})}

\* Script texts.
Chunks == {"x = 1;", "chrome.tts.speak(", "chrome.alarms.create(", "\n", "\r"}
Texts == AllSeqs(Chunks, MaxChunks)

\* The trees polyfill_apis copies into: the boilerplate directory is there.
DestinationTrees ==
  {[dirs |-> {boilerplate_dir(<<>>)}, files |-> <<>>],
   [dirs |-> {boilerplate_dir(<<>>)},
    files |-> MkDict({<<<<"main.js">>, [js |-> <<"x = 1;">>]>>})]}

\* Input directories.
Absent == [absent |-> TRUE]
MkTree(entries, dirs) ==
  [dirs |-> dirs \cup {Parent(e[1]) : e \in {x \in entries : Len(x[1]) > 1}},
   files |-> MkDict({e \in entries : e[2] # Absent})]
ManifestFiles ==
  {Absent, [malformed |-> TRUE], [json |-> [version |-> "1"]],
   [json |-> [name |-> "Demo"]],
   [json |-> [name |-> "Demo", short_name |-> "D", description |-> "A demo"]]}
HtmlFiles ==
  {Absent, [html |-> [head |-> <<>>, body |-> <<>>]],
   [html |-> [head |-> <<Title>>, body |-> <<MainScript>>]]}
MainJsFiles ==
  {Absent, [js |-> <<"x = 1;", "\n">>], [js |-> <<"chrome.tts.speak(", "\n">>],
   [js |-> <<"chrome.alarms.create(", "\r", "\n", "chrome.tts.speak(">>]}
UtilJsFiles == {Absent, [js |-> <<"chrome.usb.getDevices(", "\n">>]}
SwJsFiles == {Absent, [js |-> <<"x = 1;">>]}
InputTrees ==
  {MkTree({<<<<CA_MANIFEST_FILENAME>>, m>>, <<<<"index.html">>, h>>,
           <<<<"main.js">>, j>>, <<<<"lib", "util.js">>, u>>,
           <<<<SW_SCRIPT_NAME>>, w>>} \ {<<<<"lib", "util.js">>, Absent>>}, c) :
     m \in ManifestFiles, h \in HtmlFiles, j \in MainJsFiles, u \in UtilJsFiles,
     w \in SwJsFiles, c \in {{}, {boilerplate_dir(<<>>)}}}
   \cup {NoDir}
OutputTrees ==
  {NoDir, [dirs |-> {}, files |-> MkDict({<<<<"stale.txt">>, [raw |-> "stale"]>>})]}

-----------------------------------------------------------------------------
(* Initial states and specifications. *)

InitRun ==
  [outcome |-> "running", apis |-> <<>>, successful |-> <<>>,
   unsuccessful |-> <<>>, manifest |-> Unset, pwa_manifest |-> Unset,
   sw_js |-> Unset]
InitHist(input, output) ==
  [in0 |-> input, out0 |-> output, copied |-> NoDir, scanned |-> {},
   enumerated |-> NoDir]

Idle == [pc |-> "idle"]
IdlePipeline ==
  /\ pc = "idle" /\ inTree = NoDir /\ outTree = NoDir
  /\ config = [start_url |-> "index.html"] /\ force = FALSE
  /\ run = InitRun /\ log = <<>> /\ exitStatus = NotExited
  /\ hist = InitHist(NoDir, NoDir)

\* The convert command.
Init ==
  /\ pc = "setup_output_dir"
  /\ inTree \in InputTrees
  /\ outTree \in OutputTrees
  /\ config \in Configs
  /\ force \in BOOLEAN
  /\ nlOnWrite \in BOOLEAN
  /\ run = InitRun
  /\ log = <<>>
  /\ exitStatus = NotExited
  /\ hist = InitHist(inTree, outTree)
  /\ pf = Idle /\ mt = Idle /\ inj = Idle /\ td = Idle

Next ==
  \/ SetupOutputDir
  \/ PolyfillApis
  \/ GetManifest
  \/ VerifyManifest
  \/ WriteManifest
  \/ InjectTags
  \/ InsertTodos
  \/ CopyScripts
  \/ GenerateServiceWorker
  \/ WriteServiceWorker
  \/ Exit

Spec == Init /\ [][Next]_vars

\* polyfill_apis on every list of distinct capability names.
InitPolyfill ==
  /\ IdlePipeline /\ nlOnWrite = FALSE
  /\ pf \in [pc : {"call"}, apis : SeqsUpTo(Capabilities, Cardinality(Capabilities)),
             directory : {boilerplate_dir(<<>>)}, tree : DestinationTrees,
             result : {Unset}]
  /\ mt = Idle /\ inj = Idle /\ td = Idle
SpecPolyfill == InitPolyfill /\ [][PolyfillApisCall]_vars

\* ca_to_pwa_manifest on every legacy manifest and configuration.
InitManifest ==
  /\ IdlePipeline /\ nlOnWrite = FALSE
  /\ mt \in [pc : {"call"}, manifest : LegacyManifests, config : Configs,
             result : {Unset}]
  /\ pf = Idle /\ inj = Idle /\ td = Idle
SpecManifest == InitManifest /\ [][CaToPwaManifestCall]_vars

\* inject_tags on every document, manifest and list of polyfills.
InitInject ==
  /\ IdlePipeline /\ nlOnWrite = FALSE
  /\ inj \in [pc : {"call"}, html : Documents, manifest : InjectManifests,
              polyfills : SeqsUpTo(Capabilities, MaxPolyfills), result : {Unset}]
  /\ pf = Idle /\ mt = Idle /\ td = Idle
SpecInject == InitInject /\ [][InjectTagsCall]_vars

\* insert_todos_into_file on every text.
InitTodos ==
  /\ IdlePipeline /\ nlOnWrite \in BOOLEAN
  /\ td \in [pc : {"call"}, before : Texts, after : {<<>>}]
  /\ pf = Idle /\ mt = Idle /\ inj = Idle
SpecTodos == InitTodos /\ [][InsertTodosIntoFileCall]_vars

-----------------------------------------------------------------------------
(* Claims about the functions. *)

PolyfillPath(api) == Append(boilerplate_dir(<<>>), polyfill_filename(api))

\* C6: polyfill_apis returns two sorted, disjoint lists whose union is the
\* input; the first holds exactly the inputs that are in POLYFILLS; one
\* polyfill file is copied for each of these, and none for any other.
C6_PolyfillSplit ==
  pf.pc = "return" =>
    LET r == pf.result
        input == Range(pf.apis)
    IN /\ IsSorted(r.successful) /\ IsSorted(r.unsuccessful)
       /\ NoDup(r.successful) /\ NoDup(r.unsuccessful)
       /\ Range(r.successful) \cap Range(r.unsuccessful) = {}
       /\ Range(r.successful) \cup Range(r.unsuccessful) = input
       /\ Range(r.successful) = input \cap POLYFILLS
       /\ \A api \in Capabilities :
            Count(r.copies, PolyfillPath(api)) =
              IF api \in Range(r.successful) THEN 1 ELSE 0
       /\ Len(r.copies) = Len(r.successful)
       /\ Paths(r.tree) =
            Paths(pf.tree) \cup {PolyfillPath(api) : api \in Range(r.successful)}
       /\ \A p \in Paths(pf.tree) : r.tree.files[p] = pf.tree.files[p]

C6_Witness ==
  /\ pf.pc = "return"
  /\ ~IsSorted(pf.apis)
  /\ Len(pf.result.successful) = 1
  /\ Len(pf.result.unsuccessful) >= 2

\* C9: the target manifest's start_url is the configuration's; its
\* short_name is the legacy short_name when there is one and the legacy name
\* otherwise; a legacy manifest with only `name` gives no icons.
C9_ManifestDefaults ==
  mt.pc = "return" =>
    /\ mt.result.start_url = mt.config.start_url
    /\ DOMAIN mt.manifest = {"name"} =>
         /\ mt.result.short_name = mt.manifest["name"]
         /\ mt.result.icons = <<>>
    /\ "short_name" \in DOMAIN mt.manifest =>
         mt.result.short_name = mt.manifest["short_name"]

C9_Witness ==
  /\ mt.pc = "return"
  /\ DOMAIN mt.manifest = {"name"}
  /\ mt.result.short_name = mt.manifest["name"]

IsTodo(line) == line # <<>> /\ line[1] = "// TODO: (Caterpillar) Remove "
NotTodos(lines) == SelectSeq(lines, LAMBDA l : ~IsTodo(l))

\* Each line with a call has its marker right before it, and each marker
\* stands right before the line with the call it names.
MarkersPlaced(lines) ==
  /\ \A k \in DOMAIN lines :
       IsTodo(lines[k]) =>
         /\ k < Len(lines)
         /\ ~IsTodo(lines[k + 1])
         /\ api_function_called(lines[k + 1]) # None
         /\ lines[k] = Todo(api_function_called(lines[k + 1]))
  /\ \A k \in DOMAIN lines :
       (~IsTodo(lines[k]) /\ api_function_called(lines[k]) # None) =>
         /\ k > 1
         /\ lines[k - 1] = Todo(api_function_called(lines[k]))

\* C10 as stated: the markers are placed, and without the marker lines the
\* file is the original file.
C10_MarkersRemovedGiveOriginal ==
  td.pc = "return" =>
    /\ MarkersPlaced(ReadLinesU(td.after))
    /\ Flatten(NotTodos(RawLines(td.after))) = td.before

\* C10, amended: the markers are placed, and without the marker lines the
\* lines of the file are the lines of the original file, in their order,
\* each with its text; the line terminators are not kept.
C10_MarkersRemovedGiveOriginalLines ==
  td.pc = "return" =>
    /\ MarkersPlaced(ReadLinesU(td.after))
    /\ NotTodos(ReadLinesU(td.after)) = ReadLinesU(td.before)

C10_Witness ==
  /\ td.pc = "return"
  /\ "\r" \in Range(td.before)
  /\ \E k \in DOMAIN ReadLinesU(td.after) : IsTodo(ReadLinesU(td.after)[k])
  /\ Flatten(NotTodos(RawLines(td.after))) # td.before


RegisterTag == ScriptTag(relative_boilerplate_file_path(REGISTER_SCRIPT_NAME))
FirstScript(tags) ==
  CHOOSE i \in DOMAIN tags :
    tags[i].tag = "script" /\ \A j \in 1..(i - 1) : tags[j].tag # "script"
MetaName(manifest, tag) == Tag("meta", [content |-> manifest[tag], name |-> tag])

\* C7: inject_tags adds one script tag for each polyfill and one
\* registration script tag and keeps the tags of the body as they were.  The
\* polyfill tags stand right before the first script tag the body had, or,
\* when it had none, at the end of the body; the registration tag is the last
\* child of the body, after them.  In the head, the charset meta tag is the
\* first child and the only one added, and the manifest link and the
\* description, author and name meta tags come after what the head had.
C7_InjectedTagsPlaced ==
  inj.pc = "return" =>
    LET before == Preorder(inj.html.body)
        after == Preorder(inj.result.body)
        polyfillTags == {PolyfillTag(api) : api \in Range(inj.polyfills)}
        n == Len(inj.polyfills)
        body == inj.result.body
        head == inj.result.head
        metas == {t \in {"description", "author", "name"} : t \in DOMAIN inj.manifest}
    IN /\ \A api \in Range(inj.polyfills) : Count(after, PolyfillTag(api)) = 1
       /\ Count(after, RegisterTag) = 1
       /\ Len(after) = Len(before) + n + 1
       /\ SelectSeq(after, LAMBDA t : t \notin polyfillTags \cup {RegisterTag}) = before
       /\ HasScript(inj.html.body) =>
            LET first == FirstScript(before) IN
              /\ \A i \in first..(first + n - 1) : after[i] \in polyfillTags
              /\ after[first + n] = before[first]
       /\ ~HasScript(inj.html.body) =>
            /\ SubSeq(body, 1, Len(inj.html.body)) = inj.html.body
            /\ \A i \in (Len(inj.html.body) + 1)..(Len(body) - 1) :
                 body[i] \in polyfillTags
       /\ body[Len(body)] = RegisterTag
       /\ head[1] = MetaCharset
       /\ Count(head, MetaCharset) = Count(inj.html.head, MetaCharset) + 1
       /\ SubSeq(head, 2, Len(inj.html.head) + 1) = inj.html.head
       /\ head[Len(inj.html.head) + 2] = ManifestLink
       /\ Count(head, ManifestLink) = 1
       /\ Len(head) = Len(inj.html.head) + 2 + Cardinality(metas)
       /\ \A t \in metas : Count(head, MetaName(inj.manifest, t)) = 1

C7_Witness ==
  /\ inj.pc = "return"
  /\ HasScript(inj.html.body)
  /\ inj.html.body[1].tag = "div"
  /\ Len(inj.polyfills) = 2
  /\ "description" \in DOMAIN inj.manifest

-----------------------------------------------------------------------------
(* Claims about the convert command. *)

Complete == run.outcome = "complete"
CACHED_FILES == Range(run.sw_js.sw.CACHED_FILES)
RegisterPath == Append(boilerplate_dir(<<>>), REGISTER_SCRIPT_NAME)
SwStaticPath == Append(boilerplate_dir(<<>>), SW_STATIC_SCRIPT_NAME)
SameFile(t1, t2, p) ==
  /\ p \in Paths(t1) <=> p \in Paths(t2)
  /\ p \in Paths(t1) => t1.files[p] = t2.files[p]

\* C1 as stated: once generate_service_worker has walked the output tree no
\* file of it is written, and CACHED_FILES has every file of the final tree.
C1_NothingWrittenAfterEnumeration ==
  Complete =>
    /\ outTree = hist.enumerated
    /\ Paths(outTree) \subseteq CACHED_FILES

\* C1, amended: after generate_service_worker has walked the output tree
\* only sw.js, in the root, is written; CACHED_FILES has every other file of
\* the final tree, and sw.js only when the input had a file of that name.
C1_OnlyServiceWorkerWrittenAfterEnumeration ==
  Complete =>
    /\ \A p \in (Paths(outTree) \cup Paths(hist.enumerated)) \ {<<SW_SCRIPT_NAME>>} :
         SameFile(outTree, hist.enumerated, p)
    /\ outTree.files[<<SW_SCRIPT_NAME>>] = run.sw_js
    /\ Paths(outTree) \ {<<SW_SCRIPT_NAME>>} \subseteq CACHED_FILES
    /\ CACHED_FILES \subseteq Paths(outTree)
    /\ <<SW_SCRIPT_NAME>> \in CACHED_FILES <=> <<SW_SCRIPT_NAME>> \in Paths(hist.in0)

C1_Witness ==
  /\ Complete
  /\ <<SW_SCRIPT_NAME>> \in Paths(outTree)
  /\ <<SW_SCRIPT_NAME>> \notin CACHED_FILES

\* The script files the conversion stages into the output tree.
StagedScripts ==
  {PolyfillPath(api) : api \in Range(run.successful)} \cup {RegisterPath, SwStaticPath}

\* C2: every script file the conversion stages is in the tree when
\* insert_todos_into_directory walks it, and is scanned.
C2_StagedScriptsAreScanned ==
  Complete => StagedScripts \subseteq hist.scanned

\* The legacy manifest cannot be loaded, or fails its verification.
BadManifest ==
  /\ hist.in0 # NoDir
  /\ LET r == manifest_get(hist.in0) IN
       \/ "error" \in DOMAIN r
       \/ "error" \in DOMAIN manifest_verify(r.ok)

Generated(content) ==
  "pwa" \in DOMAIN content \/ "sw" \in DOMAIN content \/ "injected" \in DOMAIN content

C4_ExistingOutputRefused ==
  /\ (hist.out0 # NoDir /\ ~force) =>
       /\ outTree = hist.out0
       /\ inTree = hist.in0
       /\ hist.copied = NoDir
       /\ pc # "setup_output_dir" =>
            /\ pc \in {"returned", "exited"}
            /\ run.outcome = "aborted"
            /\ log = <<Logged("ERROR", "Output directory already exists.")>>
  /\ (hist.out0 # NoDir /\ outTree # hist.out0) => force
  /\ (hist.out0 # NoDir /\ force /\ pc # "setup_output_dir" /\ hist.in0 # NoDir) =>
       /\ hist.copied = hist.in0
       /\ \A p \in Paths(hist.out0) \ Paths(hist.in0) : p \notin Paths(outTree)

C4_Witness ==
  /\ hist.out0 # NoDir /\ ~force /\ hist.in0 # NoDir
  /\ pc = "exited"
  /\ outTree = hist.out0

\* C5: the process ends with status zero exactly when the conversion
\* completed all its stages.
C5_AbortExitsNonZero ==
  pc = "exited" => (exitStatus = <<0>> <=> Complete)

\* C8: CACHED_FILES of a completed conversion has the entry document, the
\* target manifest, the two boilerplate scripts and the polyfill of every
\* polyfilled API, and has not the legacy manifest.
C8_StagedFilesAreCached ==
  Complete =>
    /\ <<config.start_url>> \in CACHED_FILES
    /\ <<PWA_MANIFEST_FILENAME>> \in CACHED_FILES
    /\ RegisterPath \in CACHED_FILES
    /\ SwStaticPath \in CACHED_FILES
    /\ \A api \in Range(run.successful) : PolyfillPath(api) \in CACHED_FILES
    /\ <<CA_MANIFEST_FILENAME>> \notin CACHED_FILES
    /\ <<CA_MANIFEST_FILENAME>> \in Paths(hist.in0)

C8_Witness ==
  /\ Complete
  /\ run.successful = <<"tts">>
  /\ PolyfillPath("tts") \in CACHED_FILES

====
